---- MODULE Spec2Model ----
(***************************************************************************)
(* A model of the ExFoo GObject subclass (src/src/foo/imp.rs, with its C   *)
(* declarations in src/src/foo/ffi.rs) and of the SharedRString boxed      *)
(* wrapper (src/src/shared_rstring/mod.rs).                                *)
(*                                                                         *)
(* Spec         : the calls on constructed instances: virtual dispatch,    *)
(*                signal emission, properties.                             *)
(* SpecType     : type registration and class initialisation raced by      *)
(*                several threads, construction, dispatch.                 *)
(* SpecProperty : the name and the counter.                                *)
(* SpecOverride : a subclass for each of the two slots.                    *)
(* SpecSignal   : emit_by_name called by a client.                         *)
(* SpecAbi      : the C functions called with any pointer.                 *)
(* SpecBoxed    : the reference counted SharedRString.                     *)
(*                                                                         *)
(* A panic that reaches an extern "C" frame ends the process; the model    *)
(* records it in `panic` and takes no further step.                        *)
(***************************************************************************)
EXTENDS Integers, Sequences, FiniteSets, TLC

----------------------------------------------------------------------------
(* Bounds of the model *)

NThreads == 2
MaxInst == 2
MaxCalls == 3
MaxHandlers == 2
MaxBoxHandles == 3

(* i32, the type of the counter and of increment's argument and result *)
Int32Max == 2147483647
Int32Min == -2147483647 - 1

Threads == 1..NThreads

(* Arguments tried for increment: a small step and the ends of i32 *)
IncSet == {1, Int32Max, Int32Min}

(* Registration does not look at the values: the races are explored with   *)
(* one name and one step.                                                  *)
TypeNames == {"a"}
TypeIncs == {1}

(* Option<String>: None is the empty tuple, Some(s) the one-element tuple *)
None == <<>>
Some(s) == <<s>>
Strings == {"", "a"}
OptStrings == {None} \cup {Some(s) : s \in Strings}

(* A C string pointer, also the payload of a string glib::Value *)
CNull == [null |-> TRUE, chars |-> ""]
CStr(s) == [null |-> FALSE, chars |-> s]

(* A faulty variant of ValueGet: the empty string is taken for no string *)
ValueGetEmptyIsNone(v) == IF v.null \/ v.chars = "" THEN None ELSE Some(v.chars)

(* value.get::<Option<String>>().unwrap(): a NULL string is None *)
ValueGet(v) == IF v.null THEN None ELSE Some(v.chars)

(* Option<String>::to_value() and to_glib_full(): None is NULL *)
ToValue(o) == IF o = None THEN CNull ELSE CStr(o[1])

(* PROPERTIES: the one declared property *)
PROPERTIES == {"name"}

(* pspec names tried at the vfunc boundary *)
PropNames == {"name", "counter"}

(* SIGNALS: "incremented", (i32, i32) -> (), with a class handler; the     *)
(* builder is given no run flag, which glib makes RUN_LAST: the class      *)
(* handler runs after the handlers connected to the instance.              *)
SIGNALS ==
  [name |-> "incremented", nargs |-> 2, run |-> "RUN_LAST", class_handler |-> TRUE]

(* The classes: ExFoo, and a subclass that overrides the increment slot *)
Classes == {"ExFoo", "SubFoo"}

(* The same, and a subclass that overrides only the incremented slot *)
OverrideClasses == Classes \cup {"SubIncremented"}

(* What a connected handler does: nothing, or read the counter back *)
HandlerKinds == {"noop", "get_counter"}

VARIABLES
  once,        \* state of the Once that guards register_type
  typeId,      \* the registered GType, 0 before registration
  nRegister,   \* how many times register_type ran
  classState,  \* "uninit" | "initializing" | "ready"
  klass,       \* FooClass: the increment and incremented slots
  nClassInit,  \* how many times class_init ran
  pc,          \* per thread: where it is in get_type / new
  job,         \* per thread: the call it is making
  gotTypes,    \* every value a get_type() call returned
  objs,        \* the instances: class, private state, handlers
  frame,       \* the increment call in progress
  trace,       \* handler invocations of the current emission
  ret,         \* what the step just taken returned to its caller, if anything
  panic,       \* "none", or the panic that ended the process
  sum,         \* per instance: the sum of the inc arguments given to increment
  nCalls,      \* increment calls started
  nEvents,     \* "incremented" emissions
  bArc,        \* the shared allocation behind a SharedRString
  bHandles,    \* the SharedRString handles handed out
  bpc,         \* per thread: where it is in dropping a handle
  bret,        \* what the SharedRString call just made returned
  bGiven       \* the content that was given to SharedRString::new

fooVars ==
  <<once, typeId, nRegister, classState, klass, nClassInit, pc, job, gotTypes,
    objs, frame, trace, ret, panic, sum, nCalls, nEvents>>

boxVars == <<bArc, bHandles, bpc, bret, bGiven>>

vars == <<fooVars, boxVars>>

----------------------------------------------------------------------------
(* i32 arithmetic.  The sums are formed so that no intermediate value      *)
(* leaves the 32-bit range.                                                *)

AddOverflows(a, b) ==
  \/ b > 0 /\ a > Int32Max - b
  \/ b < 0 /\ a < Int32Min - b

(* The two's complement result of a + b *)
WrappingAdd(a, b) ==
  IF b > 0 /\ a > Int32Max - b
    THEN (a - Int32Max - 1) + (b - Int32Max - 1)
    ELSE IF b < 0 /\ a < Int32Min - b
      THEN (a + Int32Max + 1) + (b + Int32Max + 1)
      ELSE a + b

(* `*val += inc`: an overflow-checked build panics on overflow, any other  *)
(* build wraps.                                                            *)
Builds == {"checked", "wrapping"}

----------------------------------------------------------------------------
(* The type system's side of the class *)

(* A faulty variant of OnceWaits: a caller that finds the Once running goes on *)
OnceNeverWaits(s) == FALSE

(* Once::call_once runs its closure only for the caller that finds the     *)
(* Once incomplete; a caller that finds it running waits.                  *)
OnceRuns(s) == s = "incomplete"
OnceWaits(s) == s = "running"

(* g_type_register_static: the first registration of the name "ExFoo"      *)
(* yields the type, a second one is refused.                               *)
RegisterStatic(n) == IF n = 0 THEN "ExFoo" ELSE "G_TYPE_INVALID"

(* A faulty variant of ClassInitWaits: a caller that finds the class being           *)
(* initialised goes on                                                     *)
ClassInitNeverWaits(s) == FALSE

(* g_type_class_ref: the class is initialised by the first caller that     *)
(* needs it, under the type system's class-init lock.                      *)
ClassInitRuns(s) == s = "uninit"
ClassInitWaits(s) == s = "initializing"

(* FooClass before class_init: both slots None *)
EmptyClass == [increment |-> "None", incremented |-> "None"]

(* The class structure of class c.  A subclass starts from a copy of its   *)
(* parent's initialised structure; SubFoo then overrides increment, and    *)
(* SubIncremented overrides incremented.                                   *)
ClassOf(c) ==
  IF c = "SubFoo" /\ klass.increment # "None"
    THEN [klass EXCEPT !.increment = "sub_increment"]
    ELSE IF c = "SubIncremented" /\ klass.incremented # "None"
      THEN [klass EXCEPT !.incremented = "sub_incremented"]
      ELSE klass

(* A faulty variant of GetClass: the class that declared the method *)
GetClassDeclaring(o) == klass

(* this.get_class() in ex_foo_increment: the instance's own class *)
GetClass(o) == ClassOf(o.cls)

(* A faulty variant of GetObjectClass: the class that declared the signal *)
GetObjectClassDeclaring(o) == klass

(* obj.get_object_class() in the class handler *)
GetObjectClass(o) == ClassOf(o.cls)

----------------------------------------------------------------------------
(* Records *)

(* No allocation yet; strong is the Arc's strong count, released counts   *)
(* how often the backing storage was dropped.                              *)
NoArc == [alloc |-> FALSE, content |-> None, strong |-> 0, released |-> 0]

NoBRet == [op |-> "none", h |-> 0, val |-> None]

NoFrame ==
  [active |-> FALSE, inst |-> 0, inc |-> 0, phase |-> "none", args |-> <<>>,
   order |-> <<>>, idx |-> 0, events |-> <<>>]

NoRet ==
  [op |-> "none", inst |-> 0, impl |-> "none", ival |-> 0, inc |-> 0,
   cval |-> CNull, pname |-> "", events |-> <<>>]

NoJob == [op |-> "none", cls |-> "ExFoo", name |-> ""]

(* Foo::default() plus the instance's class, borrow flag and handlers;     *)
(* setv remembers the value last given to set_property "name".             *)
NewObj(c) ==
  [cls |-> c, name |-> None, counter |-> 0, borrow |-> "none",
   handlers |-> <<>>, setv |-> CNull]

Insts == 1..Len(objs)

Running == panic = "none"

(* No call on an instance is in progress *)
TopLevel == Running /\ ~frame.active

(* The sum of increment's arguments as the integer hi * 2^32 + lo, with lo *)
(* in the i32 range: it is in the i32 range exactly when hi = 0.           *)
WideZero == [hi |-> 0, lo |-> 0]
WideAdd(w, x) ==
  IF x > 0 /\ w.lo > Int32Max - x
    THEN [hi |-> w.hi + 1, lo |-> (w.lo - Int32Max - 1) + (x - Int32Max - 1)]
    ELSE IF x < 0 /\ w.lo < Int32Min - x
      THEN [hi |-> w.hi - 1, lo |-> (w.lo + Int32Max + 1) + (x + Int32Max + 1)]
      ELSE [hi |-> w.hi, lo |-> w.lo + x]

(* The process as it starts: nothing registered, no instance *)
InitProcess ==
  /\ once = "incomplete"
  /\ typeId = "G_TYPE_INVALID"
  /\ nRegister = 0
  /\ classState = "uninit"
  /\ klass = EmptyClass
  /\ nClassInit = 0
  /\ pc = [t \in Threads |-> "idle"]
  /\ job = [t \in Threads |-> NoJob]
  /\ gotTypes = {}
  /\ objs = <<>>
  /\ frame = NoFrame
  /\ trace = <<>>
  /\ ret = NoRet
  /\ panic = "none"
  /\ sum = <<>>
  /\ nCalls = 0
  /\ nEvents = 0
  /\ bArc = NoArc
  /\ bHandles = <<>>
  /\ bpc = [t \in Threads |-> "idle"]
  /\ bret = NoBRet
  /\ bGiven = None

typeVars == <<once, typeId, nRegister, classState, klass, nClassInit, pc, job, gotTypes>>
callVars == <<frame, trace, sum, nCalls, nEvents>>

----------------------------------------------------------------------------
(* get_type() and new(): per-thread steps *)

(* ex_foo_get_type() is called *)
GetTypeCall(t) ==
  /\ UNCHANGED boxVars
  /\ Running /\ pc[t] = "idle"
  /\ pc' = [pc EXCEPT ![t] = "call_once"]
  /\ job' = [job EXCEPT ![t] = [NoJob EXCEPT !.op = "get_type"]]
  /\ ret' = NoRet
  /\ UNCHANGED <<once, typeId, nRegister, classState, klass, nClassInit, gotTypes,
                 objs, panic, callVars>>

(* ex_foo_new(name), or a client's g_object_new of the subclass, is called *)
NewCall(t, c, s) ==
  /\ UNCHANGED boxVars
  /\ Running /\ pc[t] = "idle"
  /\ Len(objs) + Cardinality({u \in Threads : job[u].op = "new"}) < MaxInst
  /\ pc' = [pc EXCEPT ![t] = "call_once"]
  /\ job' = [job EXCEPT ![t] = [op |-> "new", cls |-> c, name |-> s]]
  /\ ret' = NoRet
  /\ UNCHANGED <<once, typeId, nRegister, classState, klass, nClassInit, gotTypes,
                 objs, panic, callVars>>

(* Foo::get_type(): ONCE.call_once(register_type) *)
OnceEnter(t) ==
  /\ UNCHANGED boxVars
  /\ Running /\ pc[t] = "call_once"
  /\ ~OnceWaits(once)
  /\ IF OnceRuns(once)
       THEN once' = "running" /\ pc' = [pc EXCEPT ![t] = "register"]
       ELSE once' = once /\ pc' = [pc EXCEPT ![t] = "have_type"]
  /\ ret' = NoRet
  /\ UNCHANGED <<typeId, nRegister, classState, klass, nClassInit, job, gotTypes,
                 objs, panic, callVars>>

(* register_type::<Foo>() inside the Once *)
Register(t) ==
  /\ UNCHANGED boxVars
  /\ Running /\ pc[t] = "register"
  /\ typeId' = RegisterStatic(nRegister)
  /\ nRegister' = nRegister + 1
  /\ once' = "complete"
  /\ pc' = [pc EXCEPT ![t] = "have_type"]
  /\ ret' = NoRet
  /\ UNCHANGED <<classState, klass, nClassInit, job, gotTypes, objs, panic, callVars>>

(* get_type() returns the type; new() goes on to create the object *)
HaveType(t) ==
  /\ UNCHANGED boxVars
  /\ Running /\ pc[t] = "have_type"
  /\ IF job[t].op = "get_type"
       THEN /\ gotTypes' = gotTypes \cup {typeId}
            /\ pc' = [pc EXCEPT ![t] = "idle"]
            /\ job' = [job EXCEPT ![t] = NoJob]
            /\ ret' = [NoRet EXCEPT !.op = "get_type", !.impl = typeId]
       ELSE /\ gotTypes' = gotTypes
            /\ pc' = [pc EXCEPT ![t] = "class_ref"]
            /\ job' = job
            /\ ret' = NoRet
  /\ UNCHANGED <<once, typeId, nRegister, classState, klass, nClassInit,
                 objs, panic, callVars>>

(* glib::Object::new: g_object_new references the class, and the type     *)
(* system runs class_init, under its class-init lock, for the first        *)
(* caller that needs the class.  register_type only hands class_init to    *)
(* g_type_register_static; get_type() does not run it.                     *)
ClassRef(t) ==
  /\ UNCHANGED boxVars
  /\ Running /\ pc[t] = "class_ref"
  /\ ~ClassInitWaits(classState)
  /\ IF ClassInitRuns(classState)
       THEN classState' = "initializing" /\ pc' = [pc EXCEPT ![t] = "class_init"]
       ELSE classState' = classState /\ pc' = [pc EXCEPT ![t] = "construct"]
  /\ ret' = NoRet
  /\ UNCHANGED <<once, typeId, nRegister, klass, nClassInit, job, gotTypes,
                 objs, panic, callVars>>

(* class_init, first assignment: klass.increment *)
ClassInitIncrement(t) ==
  /\ UNCHANGED boxVars
  /\ Running /\ pc[t] = "class_init"
  /\ klass' = [klass EXCEPT !.increment = "increment_default_trampoline"]
  /\ pc' = [pc EXCEPT ![t] = "class_init_2"]
  /\ ret' = NoRet
  /\ UNCHANGED <<once, typeId, nRegister, classState, nClassInit, job, gotTypes,
                 objs, panic, callVars>>

(* class_init, second assignment: klass.incremented; class_init returns *)
ClassInitIncremented(t) ==
  /\ UNCHANGED boxVars
  /\ Running /\ pc[t] = "class_init_2"
  /\ klass' = [klass EXCEPT !.incremented = "incremented_default_trampoline"]
  /\ nClassInit' = nClassInit + 1
  /\ classState' = "ready"
  /\ pc' = [pc EXCEPT ![t] = "construct"]
  /\ ret' = NoRet
  /\ UNCHANGED <<once, typeId, nRegister, job, gotTypes, objs, panic, callVars>>

----------------------------------------------------------------------------
(* The safe implementations of impl Foo and impl ObjectImpl for Foo, on    *)
(* one instance record                                                     *)

(* A faulty variant of Foo_set_name: the whole private state is replaced *)
Foo_set_name_default(o, name) == [o EXCEPT !.name = name, !.counter = 0]

(* Foo::set_name *)
Foo_set_name(o, name) == [o EXCEPT !.name = name]

(* Foo::get_name: a clone of the name *)
Foo_get_name(o) == o.name

(* Foo::get_counter: counter.borrow() panics while a RefMut is alive *)
Foo_get_counter(o) ==
  IF o.borrow = "mut"
    THEN [panic |-> "BorrowError", ival |-> 0]
    ELSE [panic |-> "none", ival |-> o.counter]

(* ObjectImpl::set_property *)
Foo_set_property(o, pname, v) ==
  IF pname = "name"
    THEN [panic |-> "none", obj |-> Foo_set_name(o, ValueGet(v))]
    ELSE [panic |-> "unimplemented", obj |-> o]

(* ObjectImpl::get_property *)
Foo_get_property(o, pname) ==
  IF pname = "name"
    THEN [panic |-> "none", val |-> ToValue(Foo_get_name(o))]
    ELSE [panic |-> "unimplemented", val |-> CNull]

(* A faulty variant of Foo_increment_add: `*val = inc` *)
Foo_increment_assign(val, inc) == inc

(* `*val += inc` in Foo::increment *)
Foo_increment_add(val, inc) == WrappingAdd(val, inc)

(* A faulty variant of EmittedArgs: the two arguments swapped *)
EmittedArgsSwapped(val, inc) == <<inc, val>>

(* A faulty variant of EmittedSignal: the name of the method, not of the signal *)
EmittedSignalMisspelt == "increment"

(* The signal Foo::increment emits, and its arguments *)
EmittedSignal == "incremented"
EmittedArgs(val, inc) == <<val, inc>>

(* The order in which one emission runs the n handlers connected to the    *)
(* instance (1..n, in connection order) and the class handler (0)          *)
EmissionOrder(sig, n) ==
  LET hs == [k \in 1..n |-> k]
      ch == IF sig.class_handler THEN <<0>> ELSE <<>>
  IN  IF sig.run = "RUN_FIRST" THEN ch \o hs ELSE hs \o ch

(* The increment override of the subclass: it leaves the counter alone     *)
(* and returns its argument.                                               *)
sub_increment(o, inc) == inc

----------------------------------------------------------------------------
(* Construction and the calls on an instance *)

(* The object Object::new builds: instance_init gives Foo::default(), and  *)
(* the "name" property is then set to the string given.                    *)
Constructed(c, s) ==
  [Foo_set_property(NewObj(c), "name", CStr(s)).obj EXCEPT !.setv = CStr(s)]

(* The object is built and its handle returned to the caller of new *)
Construct(t) ==
  /\ UNCHANGED boxVars
  /\ Running /\ pc[t] = "construct"
  /\ objs' = Append(objs, Constructed(job[t].cls, job[t].name))
  /\ panic' = panic
  /\ ret' = [NoRet EXCEPT !.op = "new", !.inst = Len(objs) + 1]
  /\ sum' = Append(sum, WideZero)
  /\ pc' = [pc EXCEPT ![t] = "idle"]
  /\ job' = [job EXCEPT ![t] = NoJob]
  /\ UNCHANGED <<once, typeId, nRegister, classState, klass, nClassInit,
                 gotTypes, frame, trace, nCalls, nEvents>>

(* Handlers connected, over all instances *)
RECURSIVE CountHandlers(_)
CountHandlers(i) == IF i = 0 THEN 0 ELSE Len(objs[i].handlers) + CountHandlers(i - 1)
NHandlers == CountHandlers(Len(objs))

(* A client connects a handler to "incremented" on instance i *)
Connect(i, kind) ==
  /\ UNCHANGED boxVars
  /\ TopLevel /\ i \in Insts
  /\ NHandlers < MaxHandlers
  /\ objs' = [objs EXCEPT ![i].handlers = Append(@, kind)]
  /\ ret' = NoRet
  /\ UNCHANGED <<typeVars, panic, callVars>>

(* ex_foo_increment: the slot of the instance's class is called.  The      *)
(* default (increment_default_trampoline -> Foo::increment) borrows the    *)
(* counter mutably and adds inc; the emission follows in Emit.             *)
IncrementCall(i, inc) ==
  /\ UNCHANGED boxVars
  /\ TopLevel /\ i \in Insts /\ nCalls < MaxCalls
  /\ nCalls' = nCalls + 1
  /\ LET o == objs[i]
         slot == GetClass(o).increment
     IN  CASE slot = "None" ->
                /\ panic' = "unwrap on None"
                /\ ret' = NoRet
                /\ UNCHANGED <<objs, frame, trace, sum>>
           [] slot = "sub_increment" ->
                /\ ret' = [NoRet EXCEPT !.op = "increment", !.inst = i, !.inc = inc,
                                        !.impl = "sub_increment",
                                        !.ival = sub_increment(o, inc)]
                /\ UNCHANGED <<objs, frame, trace, panic, sum>>
           [] slot = "increment_default_trampoline" ->
                IF o.borrow # "none"
                  THEN /\ panic' = "BorrowMutError"
                       /\ ret' = NoRet
                       /\ UNCHANGED <<objs, frame, trace, sum>>
                  ELSE \E build \in Builds :
                         /\ ret' = NoRet
                         /\ sum' = [sum EXCEPT ![i] = WideAdd(@, inc)]
                         /\ IF AddOverflows(o.counter, inc) /\ build = "checked"
                              THEN /\ panic' = "add with overflow"
                                   /\ objs' = [objs EXCEPT ![i].borrow = "mut"]
                                   /\ UNCHANGED <<frame, trace>>
                              ELSE /\ objs' = [objs EXCEPT
                                                 ![i].borrow = "mut",
                                                 ![i].counter = Foo_increment_add(@, inc)]
                                   /\ frame' = [NoFrame EXCEPT !.active = TRUE, !.inst = i,
                                                               !.inc = inc, !.phase = "emit"]
                                   /\ trace' = <<>>
                                   /\ panic' = panic
  /\ UNCHANGED <<typeVars, nEvents>>

(* this.emit_by_name("incremented", &[&*val, &inc]): the emission starts   *)
(* with the handlers connected now; an undeclared name is an error, which  *)
(* the unwrap() turns into a panic.                                        *)
Emit ==
  /\ UNCHANGED boxVars
  /\ Running /\ frame.active /\ frame.phase = "emit"
  /\ LET o == objs[frame.inst]
         args == EmittedArgs(o.counter, frame.inc)
     IN  IF EmittedSignal # SIGNALS.name
           THEN /\ panic' = "unwrap on Err"
                /\ UNCHANGED <<frame, nEvents>>
           ELSE /\ frame' = [frame EXCEPT !.phase = "handlers", !.args = args, !.idx = 1,
                                          !.order = EmissionOrder(SIGNALS, Len(o.handlers)),
                                          !.events = Append(@, args)]
                /\ nEvents' = nEvents + 1
                /\ panic' = panic
  /\ ret' = NoRet
  /\ UNCHANGED <<typeVars, objs, trace, sum, nCalls>>

(* The emission invokes the next connected handler with (obj, val, inc) *)
RunHandler ==
  /\ UNCHANGED boxVars
  /\ Running /\ frame.active /\ frame.phase = "handlers"
  /\ frame.idx <= Len(frame.order) /\ frame.order[frame.idx] # 0
  /\ LET o == objs[frame.inst]
         h == frame.order[frame.idx]
         kind == o.handlers[h]
     IN  /\ trace' = Append(trace, [who |-> h, fn |-> kind, inst |-> frame.inst,
                                    args |-> frame.args])
         /\ panic' = IF kind = "get_counter" THEN Foo_get_counter(o).panic ELSE panic
  /\ frame' = [frame EXCEPT !.idx = @ + 1]
  /\ ret' = NoRet
  /\ UNCHANGED <<typeVars, objs, sum, nCalls, nEvents>>

(* The class handler of "incremented": the incremented slot of the         *)
(* object's class is called with (obj, val, inc), if it is set.            *)
ClassHandler ==
  /\ UNCHANGED boxVars
  /\ Running /\ frame.active /\ frame.phase = "handlers"
  /\ frame.idx <= Len(frame.order) /\ frame.order[frame.idx] = 0
  /\ LET func == GetObjectClass(objs[frame.inst]).incremented
     IN  trace' = IF func # "None"
                    THEN Append(trace, [who |-> 0, fn |-> func, inst |-> frame.inst,
                                        args |-> frame.args])
                    ELSE trace
  /\ frame' = [frame EXCEPT !.idx = @ + 1]
  /\ ret' = NoRet
  /\ UNCHANGED <<typeVars, objs, panic, sum, nCalls, nEvents>>

(* A faulty variant of IncrementReturn: the emission is left to run later  *)
(* and increment returns at once                                           *)
IncrementReturnEarly ==
  /\ UNCHANGED boxVars
  /\ Running /\ frame.active /\ frame.phase = "handlers"
  /\ ret' = [NoRet EXCEPT !.op = "increment", !.inst = frame.inst, !.inc = frame.inc,
                          !.impl = "Foo::increment",
                          !.ival = objs[frame.inst].counter,
                          !.events = frame.events]
  /\ objs' = [objs EXCEPT ![frame.inst].borrow = "none"]
  /\ frame' = NoFrame
  /\ trace' = <<>>
  /\ UNCHANGED <<typeVars, panic, sum, nCalls, nEvents>>

(* emit_by_name has returned: Foo::increment returns *val and the RefMut   *)
(* is dropped.                                                             *)
IncrementReturn ==
  /\ UNCHANGED boxVars
  /\ Running /\ frame.active /\ frame.phase = "handlers"
  /\ frame.idx > Len(frame.order)
  /\ ret' = [NoRet EXCEPT !.op = "increment", !.inst = frame.inst, !.inc = frame.inc,
                          !.impl = "Foo::increment",
                          !.ival = objs[frame.inst].counter,
                          !.events = frame.events]
  /\ objs' = [objs EXCEPT ![frame.inst].borrow = "none"]
  /\ frame' = NoFrame
  /\ trace' = <<>>
  /\ UNCHANGED <<typeVars, panic, sum, nCalls, nEvents>>

(* ex_foo_get_counter *)
GetCounter(i) ==
  /\ UNCHANGED boxVars
  /\ TopLevel /\ i \in Insts
  /\ LET r == Foo_get_counter(objs[i])
     IN  /\ panic' = r.panic
         /\ ret' = IF r.panic = "none"
                     THEN [NoRet EXCEPT !.op = "get_counter", !.inst = i,
                                        !.impl = "Foo::get_counter", !.ival = r.ival]
                     ELSE NoRet
  /\ UNCHANGED <<typeVars, objs, callVars>>

(* ex_foo_get_name: the name as an owned C string *)
GetName(i) ==
  /\ UNCHANGED boxVars
  /\ TopLevel /\ i \in Insts
  /\ ret' = [NoRet EXCEPT !.op = "get_name", !.inst = i, !.impl = "Foo::get_name",
                          !.cval = ToValue(Foo_get_name(objs[i]))]
  /\ UNCHANGED <<typeVars, objs, panic, callVars>>

(* set_property with the given pspec name and string value *)
SetProperty(i, pname, v) ==
  /\ UNCHANGED boxVars
  /\ TopLevel /\ i \in Insts
  /\ LET r == Foo_set_property(objs[i], pname, v)
     IN  /\ panic' = r.panic
         /\ objs' = [objs EXCEPT ![i] =
                       IF r.panic = "none" THEN [r.obj EXCEPT !.setv = v] ELSE @]
         /\ ret' = IF r.panic = "none"
                     THEN [NoRet EXCEPT !.op = "set_property", !.inst = i, !.pname = pname]
                     ELSE [NoRet EXCEPT !.op = "panic", !.inst = i, !.pname = pname]
  /\ UNCHANGED <<typeVars, callVars>>

(* get_property with the given pspec name *)
GetProperty(i, pname) ==
  /\ UNCHANGED boxVars
  /\ TopLevel /\ i \in Insts
  /\ LET r == Foo_get_property(objs[i], pname)
     IN  /\ panic' = r.panic
         /\ ret' = IF r.panic = "none"
                     THEN [NoRet EXCEPT !.op = "get_property", !.inst = i,
                                        !.pname = pname, !.cval = r.val]
                     ELSE [NoRet EXCEPT !.op = "panic", !.inst = i, !.pname = pname]
  /\ UNCHANGED <<typeVars, objs, callVars>>

Values == {CNull} \cup {CStr(s) : s \in Strings}

(* The state after construction: the type registered, the class           *)
(* initialised, and one to MaxInst instances built by new(name), none of   *)
(* them used yet.                                                          *)
Init ==
  /\ once = "complete"
  /\ typeId = RegisterStatic(0)
  /\ nRegister = 1
  /\ classState = "ready"
  /\ klass = [increment |-> "increment_default_trampoline",
              incremented |-> "incremented_default_trampoline"]
  /\ nClassInit = 1
  /\ pc = [t \in Threads |-> "idle"]
  /\ job = [t \in Threads |-> NoJob]
  /\ gotTypes = {}
  /\ \E n \in 1..MaxInst :
       /\ objs \in [1..n -> {Constructed(c, s) : c \in Classes, s \in Strings}]
       /\ sum = [i \in 1..n |-> WideZero]
  /\ frame = NoFrame
  /\ trace = <<>>
  /\ ret = NoRet
  /\ panic = "none"
  /\ nCalls = 0
  /\ nEvents = 0
  /\ bArc = NoArc
  /\ bHandles = <<>>
  /\ bpc = [t \in Threads |-> "idle"]
  /\ bret = NoBRet
  /\ bGiven = None

(* The calls on constructed instances *)
Next ==
  \/ \E i \in Insts : \E k \in HandlerKinds : Connect(i, k)
  \/ \E i \in Insts : \E inc \in IncSet : IncrementCall(i, inc)
  \/ Emit
  \/ RunHandler
  \/ ClassHandler
  \/ IncrementReturn
  \/ \E i \in Insts : GetCounter(i)
  \/ \E i \in Insts : GetName(i)
  \/ \E i \in Insts : \E p \in PropNames : \E v \in Values : SetProperty(i, p, v)
  \/ \E i \in Insts : \E p \in PropNames : GetProperty(i, p)

Spec == Init /\ [][Next]_vars

(* Threads racing to register the type, construct and dispatch *)
NextType ==
  \/ \E t \in Threads : GetTypeCall(t)
  \/ \E t \in Threads : \E c \in Classes : \E s \in TypeNames : NewCall(t, c, s)
  \/ \E t \in Threads : OnceEnter(t)
  \/ \E t \in Threads : Register(t)
  \/ \E t \in Threads : HaveType(t)
  \/ \E t \in Threads : ClassRef(t)
  \/ \E t \in Threads : ClassInitIncrement(t)
  \/ \E t \in Threads : ClassInitIncremented(t)
  \/ \E t \in Threads : Construct(t)
  \/ \E i \in Insts : \E inc \in TypeIncs : IncrementCall(i, inc)
  \/ Emit
  \/ ClassHandler
  \/ IncrementReturn
  \/ \E i \in Insts : GetCounter(i)

SpecType == InitProcess /\ [][NextType]_vars

----------------------------------------------------------------------------
(* The name and the counter: the calls that read or write either, on      *)
(* instances without handlers                                              *)
NextProperty ==
  \/ \E i \in Insts : \E inc \in TypeIncs : IncrementCall(i, inc)
  \/ Emit
  \/ ClassHandler
  \/ IncrementReturn
  \/ \E i \in Insts : GetCounter(i)
  \/ \E i \in Insts : GetName(i)
  \/ \E i \in Insts : \E p \in PropNames : \E v \in Values : SetProperty(i, p, v)
  \/ \E i \in Insts : \E p \in PropNames : GetProperty(i, p)

SpecProperty == Init /\ [][NextProperty]_vars

----------------------------------------------------------------------------
(* The two overridable slots *)

(* The state after construction: the type registered, the class           *)
(* initialised, and one to MaxInst instances of the classes cs built with  *)
(* the names ss                                                            *)
InitInstances(cs, ss) ==
  /\ once = "complete"
  /\ typeId = RegisterStatic(0)
  /\ nRegister = 1
  /\ classState = "ready"
  /\ klass = [increment |-> "increment_default_trampoline",
              incremented |-> "incremented_default_trampoline"]
  /\ nClassInit = 1
  /\ pc = [t \in Threads |-> "idle"]
  /\ job = [t \in Threads |-> NoJob]
  /\ gotTypes = {}
  /\ \E n \in 1..MaxInst :
       /\ objs \in [1..n -> {Constructed(c, s) : c \in cs, s \in ss}]
       /\ sum = [i \in 1..n |-> WideZero]
  /\ frame = NoFrame
  /\ trace = <<>>
  /\ ret = NoRet
  /\ panic = "none"
  /\ nCalls = 0
  /\ nEvents = 0
  /\ bArc = NoArc
  /\ bHandles = <<>>
  /\ bpc = [t \in Threads |-> "idle"]
  /\ bret = NoBRet
  /\ bGiven = None

(* Instances of ExFoo and of a subclass for each slot *)
InitOverride == InitInstances(OverrideClasses, TypeNames)

NextOverride ==
  \/ \E i \in Insts : \E k \in HandlerKinds : Connect(i, k)
  \/ \E i \in Insts : \E inc \in TypeIncs : IncrementCall(i, inc)
  \/ Emit
  \/ RunHandler
  \/ ClassHandler
  \/ IncrementReturn
  \/ \E i \in Insts : GetCounter(i)

SpecOverride == InitOverride /\ [][NextOverride]_vars

----------------------------------------------------------------------------
(* emit_by_name called by a client *)

(* The names and argument lists a client tries *)
SignalNames == {"incremented", "decremented"}
ArgLists == {<<1, 1>>, <<1>>}

(* The lookup of a name among the signals declared for the class *)
SignalDeclared(name) == name = SIGNALS.name

(* obj.emit_by_name(name, args): an Err is returned, and nothing invoked,  *)
(* for a name that is not declared or arguments that do not fit the        *)
(* signature.  Otherwise the handlers connected to the instance and the    *)
(* class handler run inside the call, which returns when they have; none   *)
(* of them changes the instance.  ival is the number of invocations.       *)
EmitByName(i, name, args) ==
  /\ UNCHANGED boxVars
  /\ TopLevel /\ i \in Insts
  /\ ret' = [NoRet EXCEPT
               !.op = "emit_by_name", !.inst = i, !.pname = name,
               !.impl = IF ~SignalDeclared(name) THEN "UnknownSignal"
                        ELSE IF Len(args) # SIGNALS.nargs THEN "ArgumentMismatch"
                        ELSE "Ok",
               !.ival = IF SignalDeclared(name) /\ Len(args) = SIGNALS.nargs
                          THEN Len(EmissionOrder(SIGNALS, Len(objs[i].handlers)))
                          ELSE 0]
  /\ UNCHANGED <<typeVars, objs, panic, callVars>>

NextSignal ==
  \/ \E i \in Insts : \E k \in HandlerKinds : Connect(i, k)
  \/ \E i \in Insts : \E inc \in TypeIncs : IncrementCall(i, inc)
  \/ Emit
  \/ RunHandler
  \/ ClassHandler
  \/ IncrementReturn
  \/ \E i \in Insts : \E n \in SignalNames : \E a \in ArgLists : EmitByName(i, n, a)

(* The signals are those of the class: instances of ExFoo *)
InitSignal == InitInstances({"ExFoo"}, TypeNames)

SpecSignal == InitSignal /\ [][NextSignal]_vars

----------------------------------------------------------------------------
(* The C functions as a C caller can call them: with any pointer *)

(* A handle is a pointer: NULL, the address of an instance (1..Len(objs)), *)
(* or the address of something that is not an instance.                    *)
NullHandle == 0
Handles == NullHandle..MaxInst

(* Dereferencing a pointer that is not an instance is undefined behaviour: *)
(* the process faults, or the call goes on with what it finds there.       *)
DerefOutcomes == {"fault", "garbage"}

(* ex_foo_increment, ex_foo_get_counter and ex_foo_get_name begin with     *)
(* this.get_class() or this.get_impl() on the dereferenced pointer: no     *)
(* test of `this` comes first.                                             *)
DerefInvalid(op, h) ==
  /\ UNCHANGED boxVars
  /\ TopLevel /\ h \in Handles \ Insts
  /\ \E out \in DerefOutcomes :
       IF out = "fault"
         THEN panic' = "invalid dereference" /\ ret' = NoRet
         ELSE panic' = panic
              /\ ret' = [NoRet EXCEPT !.op = op, !.impl = "undefined behaviour"]
  /\ UNCHANGED <<typeVars, objs, callVars>>

(* ex_foo_new(NULL): GString::from_glib_borrow(name) is evaluated before   *)
(* Object::new; it asserts that the pointer is not NULL, and reads through *)
(* it where the assertion is compiled out.  Either way the process ends.   *)
NullNamePanics == {"assertion failed: !ptr.is_null()", "null name read"}

NewNull(t) ==
  /\ UNCHANGED boxVars
  /\ Running /\ pc[t] = "idle"
  /\ panic' \in NullNamePanics
  /\ ret' = NoRet
  /\ UNCHANGED <<typeVars, objs, callVars>>

(* SpecType, and the calls made with a pointer that is not an instance or  *)
(* a name that is NULL                                                     *)
NextAbi ==
  \/ NextType
  \/ \E h \in Handles : DerefInvalid("increment", h)
  \/ \E h \in Handles : DerefInvalid("get_counter", h)
  \/ \E h \in Handles : DerefInvalid("get_name", h)
  \/ \E t \in Threads : NewNull(t)

SpecAbi == InitProcess /\ [][NextAbi]_vars

----------------------------------------------------------------------------
(* SharedRString: a Boxed wrapper whose copy and free are the ref and      *)
(* unref of an atomically reference counted string                         *)

(* s.to_glib_none().0 for an Option<&str>: None is the NULL pointer *)
OptStrToGlibNone(o) == IF o = None THEN CNull ELSE CStr(o[1])

(* A faulty variant of OptStringFromGlibFull: NULL is taken for the empty string *)
OptStringFromGlibFullNullIsEmpty(p) == Some(p.chars)

(* from_glib_full(ptr) to an Option<String>: NULL is None *)
OptStringFromGlibFull(p) == IF p.null THEN None ELSE Some(p.chars)

(* imp::ex_shared_rstring_new: a new allocation with a count of one *)
ex_shared_rstring_new(p) ==
  [alloc |-> TRUE, content |-> IF p.null THEN None ELSE Some(p.chars),
   strong |-> 1, released |-> 0]

(* imp::ex_shared_rstring_get: a copy of the content as a C string *)
ex_shared_rstring_get(arc) ==
  IF arc.content = None THEN CNull ELSE CStr(arc.content[1])

(* imp::ex_shared_rstring_ref: the count goes up by one, atomically *)
ex_shared_rstring_ref(arc) == [arc EXCEPT !.strong = @ + 1]

(* imp::ex_shared_rstring_unref: the count goes down by one, atomically;   *)
(* the caller that took it from one to zero releases the storage.          *)
ex_shared_rstring_unref(arc) == [arc EXCEPT !.strong = @ - 1]
UnrefReleases(old) == old = 1
ReleaseStorage(arc) == [arc EXCEPT !.released = @ + 1]

LiveHandles == {h \in 1..Len(bHandles) : bHandles[h].live}

(* SharedRString::new(s) by thread t *)
SharedRString_new(t, s) ==
  /\ UNCHANGED fooVars
  /\ ~bArc.alloc /\ bpc[t] = "idle"
  /\ bArc' = ex_shared_rstring_new(OptStrToGlibNone(s))
  /\ bHandles' = Append(bHandles, [live |-> TRUE, owner |-> t])
  /\ bGiven' = s
  /\ bret' = [NoBRet EXCEPT !.op = "new", !.h = Len(bHandles) + 1]
  /\ bpc' = bpc

(* SharedRString::get(&self) by the thread that holds handle h.  Reading   *)
(* storage that was released is a use after free.                          *)
SharedRString_get(t, h) ==
  /\ UNCHANGED fooVars
  /\ h \in LiveHandles /\ bHandles[h].owner = t /\ bpc[t] = "idle"
  /\ bret' = IF bArc.released > 0
               THEN [NoBRet EXCEPT !.op = "use after free", !.h = h]
               ELSE [NoBRet EXCEPT !.op = "get", !.h = h,
                                   !.val = OptStringFromGlibFull(ex_shared_rstring_get(bArc))]
  /\ UNCHANGED <<bArc, bHandles, bpc, bGiven>>

(* A faulty variant of SharedRString_copy: the pointer is copied and the count left  *)
(* alone                                                                   *)
SharedRString_copy_alias(t, h, u) ==
  /\ UNCHANGED fooVars
  /\ h \in LiveHandles /\ bHandles[h].owner = t /\ bpc[t] = "idle"
  /\ Len(bHandles) < MaxBoxHandles
  /\ bHandles' = Append(bHandles, [live |-> TRUE, owner |-> u])
  /\ bret' = [NoBRet EXCEPT !.op = "copy", !.h = Len(bHandles) + 1]
  /\ UNCHANGED <<bArc, bpc, bGiven>>

(* clone(): the wrapper's copy function, ex_shared_rstring_ref, gives a    *)
(* new handle on the same allocation; the clone is handed to thread u.     *)
SharedRString_copy(t, h, u) ==
  /\ UNCHANGED fooVars
  /\ h \in LiveHandles /\ bHandles[h].owner = t /\ bpc[t] = "idle"
  /\ Len(bHandles) < MaxBoxHandles
  /\ bArc' = ex_shared_rstring_ref(bArc)
  /\ bHandles' = Append(bHandles, [live |-> TRUE, owner |-> u])
  /\ bret' = [NoBRet EXCEPT !.op = "copy", !.h = Len(bHandles) + 1]
  /\ UNCHANGED <<bpc, bGiven>>

(* drop: the wrapper's free function, ex_shared_rstring_unref.  The handle *)
(* is gone once the count is decremented.                                  *)
SharedRString_free(t, h) ==
  /\ UNCHANGED fooVars
  /\ h \in LiveHandles /\ bHandles[h].owner = t /\ bpc[t] = "idle"
  /\ bArc' = ex_shared_rstring_unref(bArc)
  /\ bHandles' = [bHandles EXCEPT ![h].live = FALSE]
  /\ bpc' = [bpc EXCEPT ![t] = IF UnrefReleases(bArc.strong) THEN "release" ELSE "idle"]
  /\ bret' = [NoBRet EXCEPT !.op = "free", !.h = h]
  /\ bGiven' = bGiven

(* The thread whose unref took the count to zero releases the storage *)
SharedRString_release(t) ==
  /\ UNCHANGED fooVars
  /\ bpc[t] = "release"
  /\ bArc' = ReleaseStorage(bArc)
  /\ bpc' = [bpc EXCEPT ![t] = "idle"]
  /\ bret' = [NoBRet EXCEPT !.op = "release"]
  /\ UNCHANGED <<bHandles, bGiven>>

NextBoxed ==
  \/ \E t \in Threads : \E s \in OptStrings : SharedRString_new(t, s)
  \/ \E t \in Threads : \E h \in LiveHandles : SharedRString_get(t, h)
  \/ \E t \in Threads : \E h \in LiveHandles : \E u \in Threads : SharedRString_copy(t, h, u)
  \/ \E t \in Threads : \E h \in LiveHandles : SharedRString_free(t, h)
  \/ \E t \in Threads : SharedRString_release(t)

SpecBoxed == InitProcess /\ [][NextBoxed]_vars

----------------------------------------------------------------------------
(* Properties *)

(* The instance's class leaves the increment slot at its default *)
DefaultIncrement(i) == GetClass(objs[i]).increment = "increment_default_trampoline"

(* C1, as stated: every value increment returns on an instance that runs   *)
(* the default increment, and every value get_counter returns on it, is    *)
(* the sum of all inc arguments given to that instance so far.             *)
C1_ReturnsRunningSum ==
  (ret.op \in {"increment", "get_counter"} /\ DefaultIncrement(ret.inst)) =>
    /\ sum[ret.inst].hi = 0
    /\ ret.ival = sum[ret.inst].lo

(* C1, amended: the value returned is the sum of the inc arguments reduced *)
(* modulo 2^32 into the i32 range, which is the sum itself whenever the    *)
(* sum lies in the i32 range.                                              *)
C1_ReturnsWrappedRunningSum ==
  (ret.op \in {"increment", "get_counter"} /\ DefaultIncrement(ret.inst)) =>
    /\ ret.ival = sum[ret.inst].lo
    /\ ret.ival = objs[ret.inst].counter

(* C1 witness: a third increment returns a sum that is in range again      *)
(* after an addition that wrapped.                                         *)
C1_Witness ==
  /\ ret.op = "increment" /\ ret.impl = "Foo::increment"
  /\ nCalls >= 3
  /\ sum[ret.inst].hi = 0
  /\ ret.ival = Int32Max - 1

(* C2: a default increment that returns has emitted "incremented" exactly  *)
(* once, carrying (the value it returns, its inc argument); and the only   *)
(* step that emits is the emission inside a default increment, taken with  *)
(* the counter already updated and still borrowed.                         *)
C2_OneEventPerIncrement ==
  /\ [](ret.op = "increment" /\ ret.impl = "Foo::increment" =>
          ret.events = << <<ret.ival, ret.inc>> >>)
  /\ [][nEvents' # nEvents =>
          /\ nEvents' = nEvents + 1
          /\ frame.active /\ frame.phase = "emit"
          /\ objs[frame.inst].borrow = "mut"
          /\ frame'.events = << <<objs[frame.inst].counter, frame.inc>> >>]_vars

C2_Witness ==
  /\ ret.op = "increment" /\ ret.impl = "Foo::increment"
  /\ nEvents = 2
  /\ ret.events = << <<2, 1>> >>

(* C3, as stated: once get_type() has returned, every call returned the    *)
(* same type and class_init has run exactly once.                          *)
C3_ClassInitExactlyOnce ==
  gotTypes # {} => (gotTypes = {RegisterStatic(0)} /\ nClassInit = 1)

(* C3, amended: every get_type() call returns the same, valid, type and    *)
(* the type is registered exactly once; class_init runs at most once: not  *)
(* before an instance is asked for, and once by the time one exists.       *)
C3_OneTypeOneClassInit ==
  /\ gotTypes \subseteq {RegisterStatic(0)}
  /\ nRegister <= 1
  /\ (gotTypes # {} => nRegister = 1)
  /\ nClassInit <= 1
  /\ (objs # <<>> => nClassInit = 1)
  /\ (nClassInit = 1 => \/ objs # <<>>
                        \/ \E t \in Threads : job[t].op = "new" /\ pc[t] = "construct")

(* C3 witness: one caller has its type while another is still inside       *)
(* get_type(), and an instance has been built.                             *)
C3_Witness ==
  /\ gotTypes # {}
  /\ objs # <<>>
  /\ \E t \in Threads : job[t].op = "get_type" /\ pc[t] = "have_type"

(* C4, as stated: once a get_type() call has returned, an instance exists  *)
(* or a call is dispatched, class_init has completed.                      *)
C4_NothingBeforeClassInit ==
  (gotTypes # {} \/ objs # <<>> \/ frame.active) => classState = "ready"

(* C4, amended: get_type() returns only a completed registration; an       *)
(* instance is built or dispatched on only when class_init has completed   *)
(* and filled both slots (class_init runs when the first instance is       *)
(* built, not in get_type()); no dispatch finds an empty slot.             *)
C4_InitBarrier ==
  /\ (ret.op = "get_type" => once = "complete" /\ ret.impl = RegisterStatic(0))
  /\ ((objs # <<>> \/ frame.active \/ \E t \in Threads : pc[t] = "construct") =>
        /\ classState = "ready"
        /\ klass.increment # "None"
        /\ klass.incremented # "None")
  /\ Cardinality({t \in Threads : pc[t] \in {"class_init", "class_init_2"}}) <= 1
  /\ panic # "unwrap on None"

(* C4 witness: a call is dispatched on an instance while another thread,   *)
(* which met the class being initialised, is still inside new().           *)
C4_Witness ==
  /\ frame.active
  /\ \E t \in Threads : pc[t] = "construct"

(* C5: get_property "name" and get_name return the value last given to     *)
(* set_property "name" on that instance (or to new), whatever increments   *)
(* came in between.                                                        *)
C5_NameRoundTrip ==
  ((ret.op = "get_property" /\ ret.pname = "name") \/ ret.op = "get_name") =>
    ret.cval = objs[ret.inst].setv

(* C5 witness: the absent value read back on an instance that has been     *)
(* incremented.                                                            *)
C5_Witness ==
  /\ ret.op = "get_property"
  /\ ret.cval = CNull
  /\ objs[ret.inst].counter # 0

(* C6, as stated: a property name outside the declared table never aborts  *)
C6_UnknownPropertyRecoverable == panic # "unimplemented"

(* C7: get on a live handle returns the content given to new, and never    *)
(* reads released storage.                                                 *)
C7_GetReturnsContent ==
  /\ bret.op # "use after free"
  /\ (bret.op = "get" => bret.val = bGiven)

(* C7 witness: a clone is read after the original handle was unref'd *)
C7_Witness ==
  /\ bret.op = "get"
  /\ bret.h > 1
  /\ ~bHandles[1].live
  /\ bret.val = None

(* C8: the count is the number of live handles; the storage is released    *)
(* at most once, only by the unref that took the count to zero, and is     *)
(* released once no handle and no pending release is left.                 *)
C8_CountIsLiveHandles ==
  /\ bArc.strong = Cardinality(LiveHandles)
  /\ bArc.strong >= 0
  /\ bArc.released <= 1
  /\ (bArc.released = 1 => bArc.strong = 0)
  /\ Cardinality({t \in Threads : bpc[t] = "release"}) <= 1
  /\ ((\E t \in Threads : bpc[t] = "release") => bArc.strong = 0 /\ bArc.released = 0)
  /\ ((bArc.alloc /\ bArc.strong = 0 /\ \A t \in Threads : bpc[t] = "idle") =>
        bArc.released = 1)

(* C8 witness: handles held by two threads, all unref'd, storage released *)
C8_Witness ==
  /\ bArc.released = 1
  /\ Len(bHandles) >= 3
  /\ \E h, g \in 1..Len(bHandles) : bHandles[h].owner # bHandles[g].owner

(* C9: increment runs the function in the slot of the instance's own       *)
(* class, the override for a SubFoo and the default for an ExFoo;          *)
(* get_counter and get_name run the base implementation on both.           *)
C9_LateBinding ==
  /\ (ret.op = "increment" =>
        ret.impl = IF objs[ret.inst].cls = "SubFoo"
                     THEN "sub_increment" ELSE "Foo::increment")
  /\ (ret.op = "get_counter" =>
        ret.impl = "Foo::get_counter" /\ ret.ival = objs[ret.inst].counter)
  /\ (ret.op = "get_name" =>
        ret.impl = "Foo::get_name" /\ ret.cval = ToValue(objs[ret.inst].name))

(* C9 witness: the override runs on a SubFoo while an ExFoo that ran the   *)
(* default exists.                                                         *)
C9_Witness ==
  /\ ret.op = "increment" /\ ret.impl = "sub_increment"
  /\ \E j \in Insts : objs[j].cls = "ExFoo" /\ objs[j].counter # 0

(* C10, as stated: during an emission the handlers connected to the        *)
(* instance have been invoked in connection order, each once with the      *)
(* same (instance, value, inc), the class handler after all of them; and   *)
(* while handlers remain to be run the emission goes on.                   *)
C10_AllHandlersRun ==
  (frame.active /\ frame.phase = "handlers") =>
    /\ Len(trace) = frame.idx - 1
    /\ \A k \in 1..Len(trace) :
         /\ trace[k].who = IF k <= Len(objs[frame.inst].handlers) THEN k ELSE 0
         /\ trace[k].inst = frame.inst
         /\ trace[k].args = frame.args
    /\ (frame.idx <= Len(frame.order) => Running)

(* C11, as stated: a call of increment, get_counter or get_name with a     *)
(* handle that is NULL or not an instance returns the InvalidArgument      *)
(* sentinel and does not dereference the handle.                           *)
C11_HandleValidated ==
  /\ panic # "invalid dereference"
  /\ ret.impl # "undefined behaviour"

(* The invocations of the class handler's slot in the current emission *)
ClassHandlerCalls == SelectSeq(trace, LAMBDA e : e.who = 0)

(* C12: an increment that runs the default and returns has had the         *)
(* incremented slot of its instance's own class called exactly once, with  *)
(* (the value returned, inc): the override for a SubIncremented, the       *)
(* default for an ExFoo; no emission calls the slot twice; a subclass      *)
(* that overrides one of the two slots has the default in the other.       *)
C12_TwoLevelOverride ==
  /\ [][(frame.active /\ ~frame'.active) =>
          /\ Len(ClassHandlerCalls) = 1
          /\ ClassHandlerCalls[1].fn =
               (IF objs[frame.inst].cls = "SubIncremented"
                  THEN "sub_incremented" ELSE "incremented_default_trampoline")
          /\ ClassHandlerCalls[1].inst = frame.inst
          /\ ClassHandlerCalls[1].args = <<ret'.ival, ret'.inc>>
          /\ ret'.op = "increment" /\ ret'.inc = frame.inc]_vars
  /\ [](Len(ClassHandlerCalls) <= 1)
  /\ [](\A i \in Insts :
          /\ objs[i].cls = "SubFoo" =>
                GetObjectClass(objs[i]).incremented = "incremented_default_trampoline"
          /\ objs[i].cls = "SubIncremented" =>
                GetClass(objs[i]).increment = "increment_default_trampoline")

(* C12 witness: the override of incremented has been called, after a       *)
(* connected handler, in the second increment of a SubIncremented.         *)
C12_Witness ==
  /\ frame.active
  /\ objs[frame.inst].cls = "SubIncremented"
  /\ Len(trace) = 2
  /\ trace[2].fn = "sub_incremented"
  /\ trace[2].args = <<2, 1>>

(* C13, as stated: a handler of "incremented" that calls get_counter on    *)
(* the emitting instance gets the new value; the call does not fail.       *)
C13_HandlerMayGetCounter ==
  \A k \in 1..Len(trace) :
    trace[k].fn = "get_counter" =>
      /\ panic = "none"
      /\ Foo_get_counter(objs[trace[k].inst]).panic = "none"
      /\ Foo_get_counter(objs[trace[k].inst]).ival = trace[k].args[1]

(* C14: increment returns only when every handler connected to the         *)
(* instance, and then the class handler, has been invoked and has          *)
(* returned; handlers are invoked only inside the increment call that      *)
(* emitted, and none is left over once it has returned.                    *)
C14_EmissionSynchronous ==
  /\ [][(frame.active /\ ~frame'.active) =>
          /\ ret'.op = "increment"
          /\ Len(trace) = Len(objs[frame.inst].handlers) + 1
          /\ \A k \in 1..Len(objs[frame.inst].handlers) : trace[k].who = k
          /\ trace[Len(trace)].who = 0]_vars
  /\ [][trace' # trace => (frame.active /\ (frame'.active \/ trace' = <<>>))]_vars
  /\ [](~frame.active => trace = <<>>)

(* C14 witness: an increment has returned on an instance with two handlers *)
C14_Witness ==
  /\ ret.op = "increment" /\ ret.impl = "Foo::increment"
  /\ Len(objs[ret.inst].handlers) = 2
  /\ ~frame.active

(* C15: a step that changes an instance's name is a set_property "name"    *)
(* on it and leaves its counter alone; a step that changes its counter is  *)
(* the start of an increment on it and leaves its name alone; a property   *)
(* get or set succeeds only for "name", and a get returns the name.        *)
C15_NameCounterIndependent ==
  /\ [][\A i \in Insts :
          /\ objs'[i].name # objs[i].name =>
                /\ objs'[i].counter = objs[i].counter
                /\ ret'.op = "set_property" /\ ret'.pname = "name" /\ ret'.inst = i
          /\ objs'[i].counter # objs[i].counter =>
                /\ objs'[i].name = objs[i].name
                /\ ~frame.active /\ frame'.active /\ frame'.inst = i
          /\ ret'.op \in {"get_property", "set_property", "panic"} =>
                objs'[i].counter = objs[i].counter
          /\ ret'.op \in {"increment", "get_counter", "get_name"} =>
                objs'[i].name = objs[i].name]_vars
  /\ [](ret.op \in {"get_property", "set_property"} => ret.pname \in PROPERTIES)
  /\ [](ret.op = "get_property" => ret.cval = ToValue(objs[ret.inst].name))
  /\ [](PROPERTIES = {"name"})

(* C15 witness: the name of an incremented instance is set to the absent   *)
(* value.                                                                  *)
C15_Witness ==
  /\ ret.op = "set_property"
  /\ objs[ret.inst].name = None
  /\ objs[ret.inst].counter # 0

(* C16, as stated: new(name) returns an instance with counter 0 and the    *)
(* name given, the absent name when none (NULL) is given; and a step       *)
(* changes the name or counter of no instance but the one it is called on. *)
C16_FreshInstance ==
  /\ [](panic \notin NullNamePanics)
  /\ [](ret.op = "new" =>
          /\ objs[ret.inst].counter = 0
          /\ objs[ret.inst].name = ValueGet(objs[ret.inst].setv))
  /\ [][\A j \in Insts :
          (objs'[j].name # objs[j].name \/ objs'[j].counter # objs[j].counter) =>
            (frame'.inst = j \/ ret'.inst = j)]_vars

(* C18: emit_by_name with a name that is not declared returns             *)
(* UnknownSignal and invokes no handler; the emission made by increment    *)
(* names the declared signal and carries as many arguments, each an i32,   *)
(* as it declares, and increment never fails on it.                        *)
C18_UnknownSignal ==
  /\ []((ret.op = "emit_by_name" /\ ret.pname # "incremented") =>
          (ret.impl = "UnknownSignal" /\ ret.ival = 0))
  /\ [](panic # "unwrap on Err")
  /\ [][nEvents' # nEvents =>
          /\ SignalDeclared(EmittedSignal)
          /\ Len(frame'.args) = SIGNALS.nargs
          /\ \A k \in 1..Len(frame'.args) :
               frame'.args[k] \in Int32Min..Int32Max]_vars

(* C18 witness: an undeclared name is refused on an instance that has a    *)
(* handler connected and has emitted "incremented".                        *)
C18_Witness ==
  /\ ret.op = "emit_by_name" /\ ret.impl = "UnknownSignal"
  /\ objs[ret.inst].handlers # <<>>
  /\ objs[ret.inst].counter # 0

====
